---------------------------- MODULE Spec2Model ----------------------------
(***************************************************************************)
(* NorrisBot: a chat bot that answers mentions of "Chuck Norris" (or of    *)
(* its own name) in public channels with the least used joke of a SQLite   *)
(* store.  The model follows lib/norrisbot.js (src/unnamed/part_000) and   *)
(* bin/bot.js.                                                             *)
(*                                                                         *)
(* JavaScript strings that the code indexes or searches are sequences of   *)
(* one-character strings.  A JavaScript value that may be undefined or of  *)
(* another type is a record [t |-> typeof value, s |-> its characters].    *)
(***************************************************************************)
EXTENDS Integers, Sequences, FiniteSets, Bags

VARIABLES
    name,         \* this.name / settings.name: the configured display name
    users,        \* this.users: the member roster the transport downloaded
    user,         \* this.user: "null", "undefined" or the id of the member found
    db,           \* this.db: 0 for null, else the number of the handle opened
    phase,        \* "idle" (run() called), "running" (after 'start'), "exited"
    exitCode,     \* the exit status of the process once phase = "exited"
    storeExists,  \* fs.existsSync(this.dbPath)
    jokes,        \* table jokes: row id |-> [joke, used]
    jokesAtStart, \* history: table jokes as it was when the bot was constructed
    info,         \* table info: the val of every row with name = "lastrun"
    ops,          \* bag of the store statements issued and not yet completed
    posts,        \* the calls of postMessageToChannel made so far
    starts,       \* number of 'start' events handled
    replies,      \* number of joke lookups issued
    clock,        \* the time (new Date()) last read
    ev,           \* the inbound event the filter was last applied to
    res,          \* what _onMessage did with ev
    err           \* the err argument of the store callback that ran last

vars == <<name, users, user, db, phase, exitCode, storeExists, jokes,
          jokesAtStart, info, ops, posts, starts, replies, clock, ev, res, err>>

-----------------------------------------------------------------------------
(* Bounds of the model *)

\* The number of store lookups (db.get) the handlers issue in one run
MaxLookups == 3

-----------------------------------------------------------------------------
(* Strings *)

Str(s) == [t |-> "string", s |-> s]

Undefined == [t |-> "undefined", s |-> <<>>]

AnObject == [t |-> "object", s |-> <<>>]

UpperCase == <<"A", "B", "C", "D", "E", "F", "G", "H", "I", "J", "K", "L", "M",
               "N", "O", "P", "Q", "R", "S", "T", "U", "V", "W", "X", "Y", "Z">>

LowerCase == <<"a", "b", "c", "d", "e", "f", "g", "h", "i", "j", "k", "l", "m",
               "n", "o", "p", "q", "r", "s", "t", "u", "v", "w", "x", "y", "z">>

\* String.prototype.toLowerCase on one character
ToLowerChar(c) ==
    IF \E i \in DOMAIN UpperCase : UpperCase[i] = c
    THEN LowerCase[CHOOSE i \in DOMAIN UpperCase : UpperCase[i] = c]
    ELSE c

ToLowerCase(s) == [i \in 1..Len(s) |-> ToLowerChar(s[i])]

\* String.prototype.indexOf: the first 0-based offset of sub in s, or -1
IndexOf(s, sub) ==
    LET hits == {i \in 0..(Len(s) - Len(sub)) :
                    \A k \in 1..Len(sub) : s[i + k] = sub[k]}
    IN  IF hits = {} THEN -1
        ELSE CHOOSE i \in hits : \A h \in hits : i <= h

ChuckNorris == <<"c", "h", "u", "c", "k", " ", "n", "o", "r", "r", "i", "s">>

DefaultName == <<"n", "o", "r", "r", "i", "s", "b", "o", "t">>

MixedCaseName == <<"N", "o", "r", "r", "i", "s", "B", "o", "t">>

\* BOT_NAME values the bot is started with (bin/bot.js); an unset BOT_NAME
\* becomes DefaultName in the constructor.
Names == {DefaultName, MixedCaseName}

\* The grave accent of the welcome text (a character SANY does not read in a
\* string literal)
Grave == "GRAVE ACCENT"

WelcomeHead ==
    <<"H", "i", " ", "g", "u", "y", "s", ",", " ", "r", "o", "u", "n", "d", "h",
      "o", "u", "s", "e", "-", "k", "i", "c", "k", " ", "a", "n", "y", "o", "n",
      "e", "?", "\n", " ", "I", " ", "c", "a", "n", " ", "t", "e", "l", "l", " ",
      "j", "o", "k", "e", "s", ",", " ", "b", "u", "t", " ", "v", "e", "r", "y",
      " ", "h", "o", "n", "e", "s", "t", " ", "o", "n", "e", "s", ".", " ", "J",
      "u", "s", "t", " ", "s", "a", "y", " ", Grave, "C", "h", "u", "c", "k", " ",
      "N", "o", "r", "r", "i", "s", Grave, " ", "o", "r", " ", Grave>>

WelcomeTail ==
    <<Grave, " ", "t", "o", " ", "i", "n", "v", "o", "k", "e", " ", "m", "e", "!">>

WelcomeText == WelcomeHead \o name \o WelcomeTail

-----------------------------------------------------------------------------
(* Rosters, store contents and inbound events the model draws from *)

Alice == <<"a", "l", "i", "c", "e">>

\* this.users as the transport may deliver it: the bot's own member (U0) is
\* registered under one of the names, next to another member (U1).
Rosters ==
    { <<[id |-> "U1", name |-> Alice], [id |-> "U0", name |-> n]>> : n \in Names }

\* this.channels
Channels ==
    << [id |-> <<"C", "1">>, name |-> "general"],
       [id |-> <<"C", "2">>, name |-> "random"] >>

JokeOne ==
    <<"C", "h", "u", "c", "k", " ", "N", "o", "r", "r", "i", "s", " ", "w", "i",
      "n", "s">>

JokeTwo == <<"n", "o", "r", "r", "i", "s", "b", "o", "t", " ", "t", "o", "o">>

\* Contents of table jokes when the bot starts: row id |-> [joke, used]
JokeTables ==
    { << >>,
      << [joke |-> JokeOne, used |-> 0], [joke |-> JokeTwo, used |-> 0] >>,
      << [joke |-> JokeOne, used |-> 0], [joke |-> JokeTwo, used |-> 5] >> }

\* Contents of table info when the bot starts: no "lastrun" row, or one
InfoTables == { << >>, <<0>> }

TextSpecExample ==
    <<"T", "e", "l", "l", " ", "m", "e", " ", "a", "b", "o", "u", "t", " ", "C",
      "h", "u", "c", "k", " ", "N", "o", "r", "r", "i", "s">>

TextLowerName == <<"h", "i", " ", "n", "o", "r", "r", "i", "s", "b", "o", "t">>

TextMixedName == <<"h", "i", " ", "N", "o", "r", "r", "i", "s", "B", "o", "t">>

TextHello == <<"h", "e", "l", "l", "o">>

Message(type, text, channel, sender) ==
    [type |-> type, text |-> text, channel |-> channel, user |-> sender]

EventTypes == {"message", "presence_change"}

EventTexts ==
    { Undefined, Str(<< >>), Str(TextHello), Str(TextSpecExample),
      Str(TextLowerName), Str(TextMixedName), Str(JokeOne) }

EventChannels ==
    { Undefined, AnObject, Str(<< >>), Str(<<"C", "1">>), Str(<<"C", "2">>),
      Str(<<"C", "9">>), Str(<<"D", "1">>), Str(<<"G", "1">>) }

EventSenders == {"U0", "U1", "undefined"}

\* Every combination of the fields of an inbound event
AllEvents ==
    { Message(ty, tx, ch, u) :
        ty \in EventTypes, tx \in EventTexts, ch \in EventChannels,
        u \in EventSenders }

\* The inbound events of the full model: the concrete case of the
\* specification and events that differ from it in one or two fields
Events ==
    { Message("message", Str(TextSpecExample), Str(<<"C", "1">>), "U1"),
      Message("message", Str(TextSpecExample), Str(<<"C", "2">>), "U1"),
      Message("message", Str(TextSpecExample), Str(<<"C", "9">>), "U1"),
      Message("message", Str(TextSpecExample), Str(<<"D", "1">>), "U1"),
      Message("message", Str(TextSpecExample), Undefined, "U1"),
      Message("message", Str(TextSpecExample), Str(<<"C", "1">>), "U0"),
      Message("message", Str(JokeOne), Str(<<"C", "1">>), "U0"),
      Message("message", Str(TextMixedName), Str(<<"C", "1">>), "U1"),
      Message("message", Str(TextLowerName), Str(<<"C", "2">>), "U1"),
      Message("message", Str(TextHello), Str(<<"C", "1">>), "U1"),
      Message("message", Undefined, Str(<<"C", "1">>), "U1"),
      Message("presence_change", Str(TextSpecExample), Str(<<"C", "1">>), "U1") }

NoEvent == Message("none", Undefined, Undefined, "undefined")

-----------------------------------------------------------------------------
(* The message filter *)

\* _isChatMessage: message.type === 'message' && Boolean(message.text)
_isChatMessage(message) ==
    /\ message.type = "message"
    /\ message.text.t = "string"
    /\ Len(message.text.s) > 0

\* _isChannelConversation:
\* typeof message.channel === 'string' && message.channel[0] === 'C'
_isChannelConversation(message) ==
    /\ message.channel.t = "string"
    /\ Len(message.channel.s) > 0
    /\ message.channel.s[1] = "C"

\* _isFromNorrisBot comparing with the first member of the roster instead of
\* the member that _loadBotUser found
Mutant_isFromNorrisBot(message) == message.user = users[1].id

\* _isFromNorrisBot: message.user === this.user.id
_isFromNorrisBot(message) == message.user = user

\* Reading this.user.id is a TypeError while this.user is null or undefined
UserIdThrows == user \in {"null", "undefined"}

\* The test of _isMentioningChuckNorris on a text and this.name: the text is
\* put in lower case, this.name is searched as it is configured
Mentions(text, botName) ==
    \/ IndexOf(ToLowerCase(text), ChuckNorris) > -1
    \/ IndexOf(ToLowerCase(text), botName) > -1

\* Mentions, tabulated once over the texts and names the model draws
MentionsTable ==
    [text \in {t.s : t \in EventTexts}, botName \in Names |-> Mentions(text, botName)]

\* _isMentioningChuckNorris
_isMentioningChuckNorris(message) == MentionsTable[message.text.s, name]

\* The condition of _onMessage, evaluated left to right with && :
\* "throw" when this.user.id is read without a resolved user.
OnMessageOutcome(message) ==
    IF ~_isChatMessage(message) THEN "skip"
    ELSE IF ~_isChannelConversation(message) THEN "skip"
    ELSE IF UserIdThrows THEN "throw"
    ELSE IF _isFromNorrisBot(message) THEN "skip"
    ELSE IF ~_isMentioningChuckNorris(message) THEN "skip"
    ELSE "reply"

-----------------------------------------------------------------------------
(* Store statements in flight *)

Op(op, chan, val, id) == [op |-> op, chan |-> chan, val |-> val, id |-> id]

\* SELECT val FROM info WHERE name = "lastrun" LIMIT 1
GetLastrun == Op("getLastrun", << >>, 0, 0)

\* SELECT id, joke FROM jokes ORDER BY used ASC, RANDOM() LIMIT 1, with the
\* channel of originalMessage its callback closes over
GetJoke(channelId) == Op("getJoke", channelId, 0, 0)

\* INSERT INTO info(name, val) VALUES("lastrun", ?)
InsertLastrun(currentTime) == Op("insertLastrun", << >>, currentTime, 0)

\* UPDATE info SET val = ? WHERE name = "lastrun"
UpdateLastrun(currentTime) == Op("updateLastrun", << >>, currentTime, 0)

\* UPDATE jokes SET used = used + 1 WHERE id = ?
IncrementUsed(id) == Op("incUsed", << >>, 0, id)

IsWrite(o) == o.op \in {"insertLastrun", "updateLastrun", "incUsed"}

\* The statements complete in any order: ops is a bag
Issue(pending, o) == pending (+) SetToBag({o})

Remove(pending, o) == pending (-) SetToBag({o})

\* What is left of the statements in flight when the process ends: callbacks
\* never run again, writes handed to the engine may still be applied
AfterExit(pending) == [o \in {x \in DOMAIN pending : IsWrite(x)} |-> pending[o]]

\* ORDER BY RANDOM() LIMIT 1, the order by used left out
Mutant_AnyRow(table) == DOMAIN table

\* The rows ORDER BY used ASC, RANDOM() LIMIT 1 may return
LeastUsed(table) ==
    {j \in DOMAIN table : \A k \in DOMAIN table : table[j].used <= table[k].used}

\* The info table declares name unique: a second "lastrun" row is refused
InsertRefused(table) == table # << >>

\* _loadBotUser taking a different member of the roster at every start
Mutant_loadAnotherUser == users[(starts % 2) + 1].id

\* _loadBotUser: this.users.filter(name === self.name)[0]
_loadBotUser ==
    LET found == SelectSeq(users, LAMBDA u : u.name = name)
    IN  IF found = << >> THEN "undefined" ELSE found[1].id

\* _getChannelById returning the first channel whatever the id
Mutant_getFirstChannel(channelId) == <<Channels[1]>>

\* _getChannelById: this.channels.filter(id === channelId)[0], as a sequence
\* that is empty when the result is undefined
_getChannelById(channelId) ==
    LET found == SelectSeq(Channels, LAMBDA c : c.id = channelId)
    IN  IF found = << >> THEN << >> ELSE <<found[1]>>

\* postMessageToChannel(channelName, text, {as_user: true})
Post(channelName, text) == [channel |-> channelName, text |-> text, as_user |-> TRUE]

\* (new Date()).toJSON(): every reading of the time is later than the last
Now == clock + 1

-----------------------------------------------------------------------------
(* The program *)

\* bin/bot.js: new NorrisBot({token, dbPath, name}) and run()
Init ==
    /\ name \in Names
    /\ users \in Rosters
    /\ user = "null"
    /\ db = 0
    /\ phase = "idle"
    /\ exitCode = 0
    /\ storeExists \in BOOLEAN
    /\ jokes \in (IF storeExists THEN JokeTables ELSE {<< >>})
    /\ jokesAtStart = jokes
    /\ info \in (IF storeExists THEN InfoTables ELSE {<< >>})
    /\ ops = EmptyBag
    /\ posts = << >>
    /\ starts = 0
    /\ replies = 0
    /\ clock = 1
    /\ ev = NoEvent
    /\ res = "none"
    /\ err = "none"

\* An uncaught exception, or process.exit(1)
Exit(pending) ==
    /\ phase' = "exited"
    /\ exitCode' = 1
    /\ ops' = AfterExit(pending)

\* _connectDb with its test of the file left out
Mutant_DbPathAlwaysFound == FALSE

\* _connectDb: !fs.existsSync(this.dbPath)
DbPathMissing == ~storeExists

\* _onStart: _loadBotUser, _connectDb, _firstRunCheck
OnStart ==
    /\ phase \in {"idle", "running"}
    /\ starts + replies < MaxLookups
    /\ starts' = starts + 1
    /\ user' = _loadBotUser
    /\ IF DbPathMissing
       THEN /\ Exit(ops)
            /\ db' = db
       ELSE /\ db' = starts + 1
            /\ phase' = "running"
            /\ exitCode' = exitCode
            /\ ops' = Issue(ops, GetLastrun)
    /\ UNCHANGED jokesAtStart
    /\ UNCHANGED <<name, users, storeExists, jokes, info, posts, replies, clock,
                   ev, res, err>>

\* _onMessage, with _replyWithRandomJoke up to its db.get.  A TypeError thrown
\* by the handler is caught by the emitter of the event or ends the process.
Handle(message) ==
    /\ phase = "running"
    /\ IF OnMessageOutcome(message) = "reply"
       THEN /\ starts + replies < MaxLookups
            /\ replies' = replies + 1
            /\ ops' = Issue(ops, GetJoke(message.channel.s))
            /\ UNCHANGED <<phase, exitCode>>
       ELSE IF OnMessageOutcome(message) = "throw"
       THEN /\ replies' = replies
            /\ \/ UNCHANGED <<phase, exitCode, ops>>
               \/ Exit(ops)
       ELSE UNCHANGED <<phase, exitCode, ops, replies>>
    /\ UNCHANGED jokesAtStart
    /\ UNCHANGED <<name, users, user, db, storeExists, jokes, info, posts,
                   starts, clock, err>>

\* The 'message' event of the transport
OnMessage(message) ==
    /\ Handle(message)
    /\ UNCHANGED <<ev, res>>

\* The callback of db.get in _firstRunCheck, when the store reports err
FirstRunCallbackErr(o) ==
    /\ phase = "running"
    /\ o.op = "getLastrun"
    /\ err' = "error"
    /\ ops' = Remove(ops, o)
    /\ UNCHANGED jokesAtStart
    /\ UNCHANGED <<name, users, user, db, phase, exitCode, storeExists, jokes,
                   info, posts, starts, replies, clock, ev, res>>

\* _welcomeMessage: postMessageToChannel(this.channels[0].name, ...)
WelcomePost == Post(Channels[1].name, WelcomeText)

\* The callback of db.get in _firstRunCheck without its test of the record:
\* every run welcomes and inserts
Mutant_FirstRunAlwaysWelcome(o) ==
    /\ phase = "running"
    /\ o.op = "getLastrun"
    /\ err' = "null"
    /\ clock' = Now
    /\ posts' = Append(posts, WelcomePost)
    /\ ops' = Issue(Remove(ops, o), InsertLastrun(Now))
    /\ UNCHANGED jokesAtStart
    /\ UNCHANGED <<name, users, user, db, phase, exitCode, storeExists, jokes,
                   info, starts, replies, ev, res>>

\* The callback of db.get in _firstRunCheck with the record read
FirstRunCallback(o) ==
    /\ phase = "running"
    /\ o.op = "getLastrun"
    /\ err' = "null"
    /\ LET currentTime == Now
       IN  /\ clock' = currentTime
           /\ IF info = << >>
              THEN \* !record: _welcomeMessage, then the INSERT
                   /\ posts' = Append(posts, WelcomePost)
                   /\ ops' = Issue(Remove(ops, o), InsertLastrun(currentTime))
              ELSE /\ posts' = posts
                   /\ ops' = Issue(Remove(ops, o), UpdateLastrun(currentTime))
    /\ UNCHANGED jokesAtStart
    /\ UNCHANGED <<name, users, user, db, phase, exitCode, storeExists, jokes,
                   info, starts, replies, ev, res>>

\* The callback of db.get in _replyWithRandomJoke without its test of err: the
\* joke is posted and counted although the lookup failed
Mutant_ReplyCallbackIgnoresErr(o) ==
    /\ phase = "running"
    /\ o.op = "getJoke"
    /\ jokes # << >>
    /\ err' = "error"
    /\ posts' = Append(posts, Post("general", jokes[1].joke))
    /\ ops' = Issue(Remove(ops, o), IncrementUsed(1))
    /\ UNCHANGED jokesAtStart
    /\ UNCHANGED <<name, users, user, db, phase, exitCode, storeExists, jokes,
                   info, starts, replies, clock, ev, res>>

\* The callback of db.get in _replyWithRandomJoke, when the store reports err
ReplyCallbackErr(o) ==
    /\ phase = "running"
    /\ o.op = "getJoke"
    /\ err' = "error"
    /\ ops' = Remove(ops, o)
    /\ UNCHANGED jokesAtStart
    /\ UNCHANGED <<name, users, user, db, phase, exitCode, storeExists, jokes,
                   info, posts, starts, replies, clock, ev, res>>

\* The callback of db.get in _replyWithRandomJoke with a record: channel.name
\* is read first and is a TypeError when the channel is not in this.channels
ReplyCallback(o, id) ==
    /\ phase = "running"
    /\ o.op = "getJoke"
    /\ err' = "null"
    /\ id \in LeastUsed(jokes)
    /\ LET channel == _getChannelById(o.chan)
       IN  IF channel = << >>
           THEN /\ Exit(Remove(ops, o))
                /\ posts' = posts
           ELSE /\ posts' = Append(posts, Post(channel[1].name, jokes[id].joke))
                /\ ops' = Issue(Remove(ops, o), IncrementUsed(id))
                /\ UNCHANGED <<phase, exitCode>>
    /\ UNCHANGED jokesAtStart
    /\ UNCHANGED <<name, users, user, db, storeExists, jokes, info, starts,
                   replies, clock, ev, res>>

\* The same callback when the jokes table is empty: record is undefined, and
\* reading channel.name or record.joke is a TypeError nobody catches
ReplyCallbackNoRecord(o) ==
    /\ phase = "running"
    /\ o.op = "getJoke"
    /\ jokes = << >>
    /\ err' = "null"
    /\ Exit(Remove(ops, o))
    /\ UNCHANGED jokesAtStart
    /\ UNCHANGED <<name, users, user, db, storeExists, jokes, info, posts,
                   starts, replies, clock, ev, res>>

\* The engine runs INSERT INTO info.  A refused INSERT has no callback to
\* report to: the error is emitted, and ends the process unless it is ignored.
ApplyInsert(o) ==
    /\ o.op = "insertLastrun"
    /\ IF InsertRefused(info)
       THEN /\ info' = info
            /\ \/ /\ ops' = Remove(ops, o)
                  /\ UNCHANGED <<phase, exitCode>>
               \/ /\ phase = "running"
                  /\ Exit(Remove(ops, o))
       ELSE /\ info' = <<o.val>>
            /\ ops' = Remove(ops, o)
            /\ UNCHANGED <<phase, exitCode>>
    /\ UNCHANGED jokesAtStart
    /\ UNCHANGED <<name, users, user, db, storeExists, jokes, posts, starts,
                   replies, clock, ev, res, err>>

\* The engine runs UPDATE info SET val = ? WHERE name = "lastrun"
ApplyUpdate(o) ==
    /\ o.op = "updateLastrun"
    /\ info' = [k \in DOMAIN info |-> o.val]
    /\ ops' = Remove(ops, o)
    /\ UNCHANGED jokesAtStart
    /\ UNCHANGED <<name, users, user, db, phase, exitCode, storeExists, jokes,
                   posts, starts, replies, clock, ev, res, err>>

\* UPDATE jokes SET used = 1 WHERE id = ?: the count the lookup read, plus
\* one, so that the second of two overlapping updates is lost
Mutant_IncrementFromRead(table, id) ==
    [j \in DOMAIN table |->
        IF j = id THEN [table[j] EXCEPT !.used = jokesAtStart[j].used + 1]
        ELSE table[j]]

\* UPDATE jokes SET used = used + 1, the WHERE left out
Mutant_IncrementEveryRow(table, id) ==
    [j \in DOMAIN table |-> [table[j] EXCEPT !.used = @ + 1]]

\* UPDATE jokes SET used = used - 1 WHERE id = ?
Mutant_DecrementRow(table, id) ==
    [j \in DOMAIN table |->
        IF j = id THEN [table[j] EXCEPT !.used = @ - 1] ELSE table[j]]

\* UPDATE jokes SET used = used + 1 WHERE id = ?
IncrementRow(table, id) ==
    [j \in DOMAIN table |->
        IF j = id THEN [table[j] EXCEPT !.used = @ + 1] ELSE table[j]]

\* The engine runs the UPDATE of jokes
ApplyIncrement(o) ==
    /\ o.op = "incUsed"
    /\ jokes' = IncrementRow(jokes, o.id)
    /\ ops' = Remove(ops, o)
    /\ UNCHANGED jokesAtStart
    /\ UNCHANGED <<name, users, user, db, phase, exitCode, storeExists, info,
                   posts, starts, replies, clock, ev, res, err>>

Next ==
    \/ OnStart
    \/ \E message \in Events : OnMessage(message)
    \/ \E o \in DOMAIN ops : FirstRunCallbackErr(o)
    \/ \E o \in DOMAIN ops : FirstRunCallback(o)
    \/ \E o \in DOMAIN ops : ReplyCallbackErr(o)
    \/ \E o \in DOMAIN ops : \E id \in DOMAIN jokes : ReplyCallback(o, id)
    \/ \E o \in DOMAIN ops : ReplyCallbackNoRecord(o)
    \/ \E o \in DOMAIN ops : ApplyInsert(o)
    \/ \E o \in DOMAIN ops : ApplyUpdate(o)
    \/ \E o \in DOMAIN ops : ApplyIncrement(o)

Spec == Init /\ [][Next]_vars

-----------------------------------------------------------------------------
(* The message filter on its own: from construction the bot is started and  *)
(* _onMessage is applied to one inbound event, drawn from every combination *)
(* of the fields of an event; the event and what the handler did with it    *)
(* are kept in ev and res.                                                  *)

ObserveMessage(message) ==
    /\ ev = NoEvent
    /\ Handle(message)
    /\ ev' = message
    /\ res' = OnMessageOutcome(message)

FilterNext ==
    \/ OnStart
    \/ \E message \in AllEvents : ObserveMessage(message)

FilterSpec == Init /\ [][FilterNext]_vars


-----------------------------------------------------------------------------
(* Claims about the message filter, checked under FilterSpec *)

\* The text mentions the trigger: ignoring letter case, it contains the phrase
\* "chuck norris" or the configured display name
MentionsTrigger(text) ==
    \/ IndexOf(ToLowerCase(text), ToLowerCase(ChuckNorris)) > -1
    \/ IndexOf(ToLowerCase(text), ToLowerCase(name)) > -1

\* The four predicates of the message filter, as the specification states them
Qualifies(e) ==
    /\ e.type = "message" /\ e.text.t = "string" /\ e.text.s # << >>
    /\ e.channel.t = "string" /\ e.channel.s # << >> /\ Head(e.channel.s) = "C"
    /\ user \notin {"null", "undefined"} /\ e.user # user
    /\ MentionsTrigger(e.text.s)

\* A joke lookup is in flight
LookupIssued == \E o \in DOMAIN ops : o.op = "getJoke"

\* C1: _onMessage initiates a joke reply (the store lookup) if and only if the
\* event is a message with non-empty text, its channel id is a string that
\* starts with "C", its sender is not the bot's resolved member id and its
\* text mentions the trigger; an event that fails a predicate causes no store
\* read, no post and no change of a usage counter.
C1_ReplyIffFourPredicates ==
    ev # NoEvent =>
        /\ (res = "reply") <=> Qualifies(ev)
        /\ LookupIssued <=> Qualifies(ev)
        /\ ~Qualifies(ev) => (replies = 0 /\ posts = << >>)

\* C2: an event whose sender is the bot's own member id is never replied to,
\* whatever its text and channel: the handler skips it, issues no joke lookup
\* and makes no post.
C2_SelfAuthoredNeverReplied ==
    (ev # NoEvent /\ user \notin {"null", "undefined"} /\ ev.user = user) =>
        /\ res = "skip"
        /\ ~LookupIssued
        /\ replies = 0
        /\ posts = << >>

\* The bot has been handed one of its own joke posts, sent to a public
\* channel and mentioning the trigger, and has skipped it
C2_Witness ==
    /\ user = "U0"
    /\ ev = Message("message", Str(JokeOne), Str(<<"C", "1">>), "U0")
    /\ MentionsTrigger(ev.text.s)
    /\ res = "skip"

\* C3: _isMentioningChuckNorris is true exactly when the text, ignoring letter
\* case, contains "chuck norris" or the configured display name, also for a
\* display name configured with upper-case letters.
C3_TriggerIgnoresCase ==
    (ev # NoEvent /\ ev.text.t = "string") =>
        (_isMentioningChuckNorris(ev) <=> MentionsTrigger(ev.text.s))


-----------------------------------------------------------------------------
(* Claims about the replies and the first-run check, checked under Spec *)

\* Statement o completes in this step / is issued in this step
Completed(o) == CopiesIn(o, ops') < CopiesIn(o, ops)

Issued(o) == CopiesIn(o, ops') = CopiesIn(o, ops) + 1

\* This step posts the text of joke id and issues the update of its counter
Serves(id) ==
    /\ Len(posts') = Len(posts) + 1
    /\ posts'[Len(posts')].text = jokes[id].joke
    /\ Issued(IncrementUsed(id))

MinUsed(table, id) == \A k \in DOMAIN table : table[id].used <= table[k].used

PostsOf(text) == Cardinality({k \in DOMAIN posts : posts[k].text = text})

\* C4: the joke the reply lookup chooses has a usage count equal to the
\* smallest usage count in the jokes table at the moment of the lookup; a joke
\* with a higher count is never chosen.
C4_LeastUsedChosen ==
    [][\A id \in DOMAIN jokes : Serves(id) => MinUsed(jokes, id)]_vars

\* From a table where both jokes are tied, the second joke has been served
\* and its counter updated, the first one not
C4_Witness ==
    /\ Len(jokes) = 2
    /\ jokes[1].used = 0
    /\ jokes[2].used = 1
    /\ PostsOf(JokeTwo) = 1
    /\ PostsOf(JokeOne) = 0

\* C5: a reply issues one update of the served joke's counter and changes no
\* table itself; the update, once run, raises that joke's usage count by
\* exactly 1 and leaves every other count, the joke texts and the info table
\* as they were.
C5_ServedCountedOnce ==
    [][ /\ \A id \in DOMAIN jokes :
              Serves(id) =>
                  /\ jokes' = jokes /\ info' = info
                  /\ \A o \in DOMAIN ops' : IsWrite(o) /\ o # IncrementUsed(id)
                                              => CopiesIn(o, ops') = CopiesIn(o, ops)
        /\ \A o \in DOMAIN ops :
              (o.op = "incUsed" /\ Completed(o)) =>
                  /\ DOMAIN jokes' = DOMAIN jokes
                  /\ jokes'[o.id].used = jokes[o.id].used + 1
                  /\ \A k \in DOMAIN jokes :
                        /\ jokes'[k].joke = jokes[k].joke
                        /\ k # o.id => jokes'[k].used = jokes[k].used
                  /\ info' = info
      ]_vars

\* Two replies have been completed on the table of the specification's
\* example: the first joke was served twice and counts 2, the other still 5
C5_Witness ==
    /\ Len(jokes) = 2
    /\ jokes[1].used = 2
    /\ jokes[2].used = 5
    /\ PostsOf(JokeOne) = 2
    /\ ~\E o \in DOMAIN ops : o.op = "incUsed"

InRoster(channelId) == \E k \in DOMAIN Channels : Channels[k].id = channelId

RosterName(channelId) ==
    (CHOOSE c \in {Channels[k] : k \in DOMAIN Channels} : c.id = channelId).name

\* C6: handling one event that passes the filter issues one joke lookup; when
\* the lookup returns without error, the jokes table is not empty and the
\* event's channel id is in the roster, its callback makes exactly one post,
\* of the text of a least used joke, to the channel whose id is the event's
\* channel id, as the bot identity, and issues the update that makes that
\* joke's count one higher.
C6_OnePostToTheEventChannel ==
    [][ /\ \A m \in Events :
              (Handle(m) /\ OnMessageOutcome(m) = "reply") =>
                  /\ ops' = Issue(ops, GetJoke(m.channel.s))
                  /\ posts' = posts
        /\ \A o \in DOMAIN ops :
              ( /\ o.op = "getJoke"
                /\ jokes # << >> /\ InRoster(o.chan)
                /\ \E served \in DOMAIN jokes : ReplyCallback(o, served) ) =>
                  \E id \in DOMAIN jokes :
                      /\ MinUsed(jokes, id)
                      /\ posts' = Append(posts, [channel |-> RosterName(o.chan),
                                                 text |-> jokes[id].joke,
                                                 as_user |-> TRUE])
                      /\ ops' = Issue(Remove(ops, o), IncrementUsed(id))
                      /\ jokes' = jokes
                      /\ IncrementRow(jokes, id)[id].used = jokes[id].used + 1
      ]_vars

\* The end-to-end example of the specification, for an event in the second
\* channel of the roster: J1 (used 0, next to a joke used 5) is posted there
\* and then counts 1
C6_Witness ==
    /\ posts = <<Post("random", JokeOne)>>
    /\ Len(jokes) = 2
    /\ jokes[1].used = 1
    /\ jokes[2].used = 5
    /\ ~\E o \in DOMAIN ops : o.op \in {"getJoke", "incUsed"}

\* A first-run check completes in this step: its db.get is answered and the
\* process goes on
CheckCompletes(o) == o.op = "getLastrun" /\ Completed(o) /\ phase' = "running"

C8_LastrunUpsert ==
    [][ /\ Len(info') <= 1
        /\ \A o \in DOMAIN ops :
              (o.op \in {"insertLastrun", "updateLastrun"} /\ Completed(o)) =>
                  info' = <<o.val>>
      ]_vars

\* C9: no step lowers the usage count of a joke or deletes a joke.
C9_UsedNeverDecreases ==
    [][\A id \in DOMAIN jokes :
          /\ id \in DOMAIN jokes'
          /\ jokes'[id].used >= jokes[id].used
          /\ jokes'[id].joke = jokes[id].joke]_vars

\* A joke has been served and counted, then the callback of a later reply has
\* ended the process: the count is still there
C9_Witness ==
    /\ Len(jokes) = 2
    /\ jokes[1].used = 0
    /\ jokes[2].used = 1
    /\ PostsOf(JokeTwo) = 1
    /\ replies = 2
    /\ phase = "exited"

\* C10: when the jokes table is empty, the callback of the joke lookup of a
\* qualifying event makes no post and issues no write, and the process keeps
\* running to handle later events.
C10_EmptyTableNoCrash ==
    [][\A o \in DOMAIN ops :
          ( /\ o.op = "getJoke" /\ Completed(o)
            /\ jokes = << >> /\ InRoster(o.chan) ) =>
              /\ phase' = "running"
              /\ posts' = posts
              /\ ops' = Remove(ops, o) ]_vars


-----------------------------------------------------------------------------
(* Claims about startup and the error paths, checked under Spec *)

\* C11: when the store file does not exist, the handler of 'start' ends the
\* process with a non-zero status before the first-run check: no welcome or
\* other post is made, no statement on "lastrun" or on jokes is ever issued,
\* no event is replied to, no handle is opened and no second start is made.
C11_StoreMissingExits ==
    ~storeExists =>
        /\ posts = << >>
        /\ ops = EmptyBag
        /\ info = << >>
        /\ replies = 0
        /\ db = 0
        /\ starts <= 1
        /\ phase \in {"idle", "exited"}
        /\ starts = 1 => (phase = "exited" /\ exitCode # 0)

\* The 'start' event has been handled without a store file: the identity
\* was resolved, then the process ended with status 1
C11_Witness ==
    /\ ~storeExists
    /\ starts = 1
    /\ user = "U0"
    /\ phase = "exited"
    /\ exitCode = 1

\* C12: when no member of the roster has the configured display name, startup
\* is aborted: the bot is never running (filtering inbound events) without a
\* resolved member id, and it issues no store statement and makes no post.
C12_NoIdentityAbortsStartup ==
    user \in {"null", "undefined"} =>
        /\ phase # "running"
        /\ ops = EmptyBag
        /\ posts = << >>

\* C13: when the channel id of a qualifying event is not in the channel
\* roster, the callback of its joke lookup (no err, a joke found) makes no
\* post, issues no update of a usage count, and the process keeps running.
C13_UnknownChannelAborts ==
    [][\A o \in DOMAIN ops :
          ( /\ o.op = "getJoke"
            /\ ~InRoster(o.chan)
            /\ \E served \in DOMAIN jokes : ReplyCallback(o, served) ) =>
              /\ phase' = "running"
              /\ posts' = posts
              /\ ops' = Remove(ops, o)
              /\ jokes' = jokes ]_vars

\* A store lookup is answered in this step with err set, and its callback
\* returns
LookupFails(o) ==
    /\ o.op \in {"getJoke", "getLastrun"}
    /\ Completed(o)
    /\ err' = "error"
    /\ phase' = "running"

\* C14: a store read error leaves the state unchanged.  The callback of a
\* lookup that failed makes no post (joke or welcome), changes no usage count
\* and no "lastrun" row, and issues no statement: no write and no second
\* lookup.  Lookups are issued by the handlers of 'start' and of an inbound
\* event only, one for each, so a failed one is never issued again.
C14_ReadErrorChangesNothing ==
    [][ /\ \A o \in DOMAIN ops :
              LookupFails(o) =>
                  /\ posts' = posts
                  /\ jokes' = jokes
                  /\ info' = info
                  /\ ops' = Remove(ops, o)
        /\ \A o \in DOMAIN ops' :
              Issued(o) =>
                  /\ o.op = "getJoke" =>
                        (replies' = replies + 1 /\ starts' = starts)
                  /\ o.op = "getLastrun" =>
                        (starts' = starts + 1 /\ replies' = replies)
      ]_vars

\* On a first run the "lastrun" lookup has failed, then the joke lookup of an
\* event has failed: nothing was posted, no row was written, every counter is
\* as it was and no statement is in flight
C14_Witness ==
    /\ err = "error"
    /\ starts = 1
    /\ replies = 1
    /\ ops = EmptyBag
    /\ posts = << >>
    /\ info = << >>
    /\ Len(jokes) = 2
    /\ jokes[1].used = 0
    /\ jokes[2].used = 5
    /\ phase = "running"

\* The callback of the first-run check's "lastrun" read has not run yet
FirstRunCheckPending == CopiesIn(GetLastrun, ops) > 0

\* C15: inbound events reach the filter and the reply engine only after the
\* first-run check has completed: while its "lastrun" read is pending no joke
\* lookup is issued and no joke is posted, and the welcome post of a first run
\* comes before every joke post.
C15_RepliesOnlyWhenReady ==
    /\ [][ FirstRunCheckPending =>
              /\ \A o \in DOMAIN ops' : o.op = "getJoke" => ~Issued(o)
              /\ \A ch \in {"general", "random"} : \A id \in DOMAIN jokes :
                    posts' # Append(posts, Post(ch, jokes[id].joke)) ]_vars
    /\ [](\A i \in DOMAIN posts : \A j \in DOMAIN posts :
             (posts[i].text = WelcomeText /\ posts[j].text # WelcomeText) => i < j)

-----------------------------------------------------------------------------
(* Claims about overlapping replies and the fields of the bot, under Spec *)

\* No joke lookup is waiting for its callback and no update of a usage count
\* is waiting to be run: every reply handler has completed
RepliesCompleted == \A o \in DOMAIN ops : o.op \notin {"getJoke", "incUsed"}

\* C16: no usage update is lost under overlapping replies.  At any time the
\* usage count of a joke has risen by no more than the number of posts of
\* that joke, and once every reply handler has completed it equals its value
\* at the start plus the number of posts of that joke.
C16_NoLostUpdate ==
    \A id \in DOMAIN jokes :
        /\ jokes[id].used - jokesAtStart[id].used <= PostsOf(jokes[id].joke)
        /\ RepliesCompleted =>
              jokes[id].used = jokesAtStart[id].used + PostsOf(jokes[id].joke)

\* Two replies were made and both updates have run; the lookup of the second
\* was answered before the update of the first was run, so that both chose
\* the second of two jokes that were tied at 0
C16_Witness ==
    /\ RepliesCompleted
    /\ Len(jokes) = 2
    /\ jokesAtStart[2].used = 0
    /\ jokes[1].used = 0
    /\ jokes[2].used = 2
    /\ PostsOf(JokeTwo) = 2

\* C17: round-robin fairness.  When all usage counts were equal at the
\* start, then once every reply handler has completed the largest and the
\* smallest usage count differ by at most 1, also when the lookups of some
\* events were answered while earlier replies were still in flight.
C17_RoundRobinFairness ==
    ( /\ \A i \in DOMAIN jokesAtStart : \A j \in DOMAIN jokesAtStart :
            jokesAtStart[i].used = jokesAtStart[j].used
      /\ RepliesCompleted ) =>
        \A i \in DOMAIN jokes : \A j \in DOMAIN jokes :
            jokes[i].used - jokes[j].used <= 1

\* C18: this.user and this.db are assigned by the handler of 'start' only:
\* a step that is not a session start (the filter, a reply, a store callback,
\* a write the engine runs, the end of the process) changes neither, and an
\* identity that has been resolved is never changed, even by a later start.
C18_IdentityAndHandleSetByStart ==
    [][ /\ (user' # user \/ db' # db) => starts' = starts + 1
        /\ user \notin {"null", "undefined"} => user' = user
      ]_vars

\* After a second session start, with a reply made in between: the identity
\* is the one resolved first, the handle is the one opened last
C18_Witness ==
    /\ starts = 2
    /\ user = "U0"
    /\ db = 2
    /\ replies = 1
    /\ PostsOf(JokeOne) = 1


=============================================================================
